---- MODULE Spec2Model ----
(***************************************************************************)
(* CPM scheduling engine of MiniPsix (scheduler.py, activity.py).          *)
(*                                                                         *)
(* The activity mapping is a Python dict: it is modelled as the sequence   *)
(* of its values in insertion order (ids are unique in it).  Every         *)
(* Activity is a record of its user fields and its seven computed fields.  *)
(* schedule() is one action: the engine is synchronous and runs the whole  *)
(* pipeline or raises.  Between calls the caller, who owns the mapping,    *)
(* adds, removes and edits activities.  SpecKahn takes the same call one   *)
(* loop iteration at a time, for the question whether it terminates.       *)
(***************************************************************************)
EXTENDS Integers, Sequences, FiniteSets, TLC

\* ----------------------------------------------------------------------
\* Bounds of the model
\* ----------------------------------------------------------------------
\* ids an activity or a predecessor entry can carry
NumIds == 3
\* size of the networks: activities + predecessor entries + units of duration
MaxSize == 6
\* changes the caller makes to the mapping after the scheduler is constructed
MaxEdits == 1
\* characters in a string handed to the Activity constructor
MaxRawLen == 2

\* Activity ids are strings; sorted() compares them lexicographically, which
\* for these one-letter ids is their position in IdSeq.
IdSeq == <<"A", "B", "C", "D", "E", "F">>
Ids == {IdSeq[i] : i \in 1..NumIds}
Rank(id) == CHOOSE i \in 1..Len(IdSeq) : IdSeq[i] = id

\* Activity names: non-empty strings the engine never reads
Names == {"Task"}

\* call holds the position and the locals of a call of schedule() that is
\* under way; it is Idle in the specifications that take the call as one step
VARIABLES activities, _last_order, outcome, edits, call

vars == <<activities, _last_order, outcome, edits, call>>

\* ----------------------------------------------------------------------
\* Generic helpers: Python built-ins used by the engine
\* ----------------------------------------------------------------------
Range(s) == {s[i] : i \in 1..Len(s)}
max(S) == CHOOSE x \in S : \A y \in S : y <= x
min(S) == CHOOSE x \in S : \A y \in S : x <= y
sorted(s) == SortSeq(s, LAMBDA a, b : Rank(a) < Rank(b))
reversed(s) == [i \in 1..Len(s) |-> s[Len(s) + 1 - i]]
\* number of occurrences of x in the list s
Count(s, x) == Cardinality({i \in 1..Len(s) : s[i] = x})
\* the list <<x, ..., x>> of length n
Repeat(x, n) == [i \in 1..n |-> x]
\* lists over S of length at most n
SeqUpTo(S, n) == UNION {[1..k -> S] : k \in 0..n}

\* ----------------------------------------------------------------------
\* The dict {id: Activity}
\* ----------------------------------------------------------------------
keys(acts) == {acts[i].id : i \in 1..Len(acts)}
key_list(acts) == [i \in 1..Len(acts) |-> acts[i].id]
Index(acts, id) == CHOOSE i \in 1..Len(acts) : acts[i].id = id
Get(acts, id) == acts[Index(acts, id)]
\* activities[id].f = v for each field f of the record upd
Put(acts, id, upd) ==
    [i \in 1..Len(acts) |->
        IF acts[i].id = id
        THEN [f \in DOMAIN acts[i] |-> IF f \in DOMAIN upd THEN upd[f] ELSE acts[i][f]]
        ELSE acts[i]]
\* del activities[id]
Del(acts, id) == SelectSeq(acts, LAMBDA a : a.id # id)

\* Activity(id, name, duration, predecessors): the computed fields take
\* their dataclass defaults.
Activity(id, name, duration, predecessors) ==
    [id |-> id, name |-> name, duration |-> duration, predecessors |-> predecessors,
     ES |-> 0, EF |-> 0, LS |-> 0, LF |-> 0,
     total_float |-> 0, free_float |-> 0, is_critical |-> FALSE]

\* __post_init__: the constructor accepts a non-negative duration and a
\* predecessor list that does not name the activity itself.
PostInitOk(id, duration, predecessors) ==
    /\ duration >= 0
    /\ id \notin Range(predecessors)

\* variant: the reset clears the duration too
reset_cpm_fields_and_duration(a) ==
    [a EXCEPT !.ES = 0, !.EF = 0, !.LS = 0, !.LF = 0,
              !.total_float = 0, !.free_float = 0, !.is_critical = FALSE,
              !.duration = 0]

reset_cpm_fields(a) ==
    [a EXCEPT !.ES = 0, !.EF = 0, !.LS = 0, !.LF = 0,
              !.total_float = 0, !.free_float = 0, !.is_critical = FALSE]

\* the computed fields of one activity
Computed(a) == <<a.ES, a.EF, a.LS, a.LF, a.total_float, a.free_float, a.is_critical>>
ComputedFields(acts) == [i \in 1..Len(acts) |-> <<acts[i].id, Computed(acts[i])>>]

\* ----------------------------------------------------------------------
\* Outcomes of a call
\* ----------------------------------------------------------------------
NoCall == [status |-> "none", message |-> <<>>]
\* schedule() has been entered and has neither returned nor raised
Running == [status |-> "running", message |-> <<>>]
Returned == [status |-> "returned", message |-> <<>>]
SchedulerError(message) == [status |-> "raised", message |-> message]
UnknownPredecessorError(act_id, pred_id) ==
    SchedulerError(<<"Activity '", act_id, "' references unknown predecessor '", pred_id, "'">>)
CycleError ==
    SchedulerError(<<"Circular dependency detected in activity network. ",
                     "Please check predecessor relationships.">>)

\* ----------------------------------------------------------------------
\* _validate
\* ----------------------------------------------------------------------
\* positions <<i, j>> of the predecessor entries that are not keys
Dangling(acts) ==
    UNION {{<<i, j>> : j \in {k \in 1..Len(acts[i].predecessors) :
                                  acts[i].predecessors[k] \notin keys(acts)}} :
           i \in 1..Len(acts)}
\* the first one the two nested loops meet
FirstDangling(acts) ==
    CHOOSE p \in Dangling(acts) :
        \A q \in Dangling(acts) : p[1] < q[1] \/ (p[1] = q[1] /\ p[2] <= q[2])
\* variant: the message repeats the predecessor id in place of the activity id
_validate_misnamed(acts) ==
    IF Dangling(acts) = {}
    THEN Returned
    ELSE LET p == FirstDangling(acts)
         IN  UnknownPredecessorError(acts[p[1]].predecessors[p[2]],
                                     acts[p[1]].predecessors[p[2]])

_validate(acts) ==
    IF Dangling(acts) = {}
    THEN Returned
    ELSE LET p == FirstDangling(acts)
         IN  UnknownPredecessorError(acts[p[1]].id, acts[p[1]].predecessors[p[2]])

\* variant: the reset is left out
_reset_schedule_fields_skipped(acts) == acts

_reset_schedule_fields(acts) == [i \in 1..Len(acts) |-> reset_cpm_fields(acts[i])]

\* ----------------------------------------------------------------------
\* Topological sort (Kahn's BFS)
\* ----------------------------------------------------------------------
\* The list successors[pred_id] after the two nested loops over the first n
\* items: every act_id is appended once per occurrence of pred_id in its
\* predecessor list, in iteration order of the dict.
\* variant: a dependent is listed once however often it names pred_id
Dependents_once(acts, pred_id, n) ==
    SelectSeq(key_list(SubSeq(acts, 1, n)),
              LAMBDA aid : pred_id \in Range(Get(acts, aid).predecessors))

RECURSIVE Dependents(_, _, _)
Dependents(acts, pred_id, n) ==
    IF n = 0
    THEN <<>>
    ELSE Dependents(acts, pred_id, n - 1)
            \o Repeat(acts[n].id, Count(acts[n].predecessors, pred_id))

_build_successor_map(acts) ==
    [aid \in keys(acts) |-> Dependents(acts, aid, Len(acts))]

\* in_degree after the loops: one increment per predecessor entry
InDegree(acts) == [aid \in keys(acts) |-> Len(Get(acts, aid).predecessors)]

\* for succ in sorted(successors[current]): decrement, enqueue at zero
RECURSIVE VisitSuccessors(_, _, _, _)
VisitSuccessors(succs, k, in_degree, queue) ==
    IF k > Len(succs)
    THEN [in_degree |-> in_degree, queue |-> queue]
    ELSE LET succ == succs[k]
             deg == in_degree[succ] - 1
         IN  VisitSuccessors(succs, k + 1,
                             [in_degree EXCEPT ![succ] = deg],
                             IF deg = 0 THEN Append(queue, succ) ELSE queue)

\* while queue: popleft, append to order, visit successors
RECURSIVE KahnLoop(_, _, _, _)
KahnLoop(queue, order, in_degree, successors) ==
    IF queue = <<>>
    THEN order
    ELSE LET current == Head(queue)
             r == VisitSuccessors(sorted(successors[current]), 1, in_degree, Tail(queue))
         IN  KahnLoop(r.queue, Append(order, current), r.in_degree, successors)

\* variant: the activities are ordered by id alone
KahnOrder_by_id(acts) == sorted(key_list(acts))

\* variant: the queue is seeded in the iteration order of the mapping
KahnOrder_insertion_seed(acts) ==
    LET in_degree == InDegree(acts)
        queue == SelectSeq(key_list(acts), LAMBDA aid : in_degree[aid] = 0)
    IN  KahnLoop(queue, <<>>, in_degree, _build_successor_map(acts))

\* the order Kahn's algorithm produces (before the length check)
KahnOrder(acts) ==
    LET in_degree == InDegree(acts)
        queue == sorted(SelectSeq(key_list(acts), LAMBDA aid : in_degree[aid] = 0))
    IN  KahnLoop(queue, <<>>, in_degree, _build_successor_map(acts))

\* The locals of a call: the queue, the order and the in-degrees of the
\* topological sort, the index i of the loops of the passes and the project
\* finish of the backward pass.  pc is the position: at the test of the
\* while loop ("loop"), at the length check ("check"), in the forward pass,
\* the backward pass or the float loop, or before the return.
Idle == [pc |-> "idle", queue |-> <<>>, order |-> <<>>, in_degree |-> <<>>,
         i |-> 0, project_finish |-> 0]

\* the locals when the loop is reached: in-degrees counted, queue seeded
KahnEnter(acts) ==
    LET in_degree == InDegree(acts)
    IN  [pc |-> "loop",
         queue |-> sorted(SelectSeq(key_list(acts), LAMBDA aid : in_degree[aid] = 0)),
         order |-> <<>>,
         in_degree |-> in_degree,
         i |-> 0,
         project_finish |-> 0]

\* variant: the loop runs until every activity is placed, taking from the
\* queue when there is something in it
KahnStep_until_all_placed(k, successors) ==
    IF Len(k.order) >= Cardinality(DOMAIN successors)
    THEN [k EXCEPT !.pc = "check"]
    ELSE IF k.queue = <<>>
    THEN k
    ELSE LET current == Head(k.queue)
             r == VisitSuccessors(sorted(successors[current]), 1, k.in_degree, Tail(k.queue))
         IN  [k EXCEPT !.queue = r.queue,
                       !.order = Append(k.order, current),
                       !.in_degree = r.in_degree]

\* one test of `while queue` and, when it passes, one run of the body
KahnStep(k, successors) ==
    IF k.queue = <<>>
    THEN [k EXCEPT !.pc = "check"]
    ELSE LET current == Head(k.queue)
             r == VisitSuccessors(sorted(successors[current]), 1, k.in_degree, Tail(k.queue))
         IN  [k EXCEPT !.queue = r.queue,
                       !.order = Append(k.order, current),
                       !.in_degree = r.in_degree]

\* variant: the length check can never fire
_topological_sort_unchecked(acts) ==
    LET order == KahnOrder(acts)
    IN  IF Len(order) > Len(acts)
        THEN [outcome |-> CycleError, order |-> <<>>]
        ELSE [outcome |-> Returned, order |-> order]

_topological_sort(acts) ==
    LET order == KahnOrder(acts)
    IN  IF Len(order) # Len(acts)
        THEN [outcome |-> CycleError, order |-> <<>>]
        ELSE [outcome |-> Returned, order |-> order]

\* ----------------------------------------------------------------------
\* Forward pass: ES and EF
\* ----------------------------------------------------------------------
\* variant: EF is set without the duration
ForwardStep_no_duration(acts, act_id) ==
    LET act == Get(acts, act_id)
        ES == IF act.predecessors = <<>>
              THEN 0
              ELSE max({Get(acts, pred_id).EF : pred_id \in Range(act.predecessors)})
    IN  Put(acts, act_id, [ES |-> ES, EF |-> ES])

\* variant: ES follows the first predecessor of the list only
ForwardStep_first_pred(acts, act_id) ==
    LET act == Get(acts, act_id)
        ES == IF act.predecessors = <<>>
              THEN 0
              ELSE Get(acts, act.predecessors[1]).EF
    IN  Put(acts, act_id, [ES |-> ES, EF |-> ES + act.duration])

\* variant: ES is the earliest, not the latest, finish of the predecessors
ForwardStep_min(acts, act_id) ==
    LET act == Get(acts, act_id)
        ES == IF act.predecessors = <<>>
              THEN 0
              ELSE min({Get(acts, pred_id).EF : pred_id \in Range(act.predecessors)})
    IN  Put(acts, act_id, [ES |-> ES, EF |-> ES + act.duration])

ForwardStep(acts, act_id) ==
    LET act == Get(acts, act_id)
        ES == IF act.predecessors = <<>>
              THEN 0
              ELSE max({Get(acts, pred_id).EF : pred_id \in Range(act.predecessors)})
    IN  Put(acts, act_id, [ES |-> ES, EF |-> ES + act.duration])

RECURSIVE _forward_pass(_, _)
_forward_pass(acts, order) ==
    IF order = <<>>
    THEN acts
    ELSE _forward_pass(ForwardStep(acts, Head(order)), Tail(order))

\* ----------------------------------------------------------------------
\* Backward pass: LS and LF
\* ----------------------------------------------------------------------
\* variant: LF is the latest, not the earliest, late start of the successors
BackwardStep_max(acts, act_id, successors, project_finish) ==
    LET act == Get(acts, act_id)
        LF == IF successors[act_id] = <<>>
              THEN project_finish
              ELSE max({Get(acts, succ_id).LS : succ_id \in Range(successors[act_id])})
    IN  Put(acts, act_id, [LF |-> LF, LS |-> LF - act.duration])

\* variant: LS is set without the duration
BackwardStep_no_duration(acts, act_id, successors, project_finish) ==
    LET act == Get(acts, act_id)
        LF == IF successors[act_id] = <<>>
              THEN project_finish
              ELSE min({Get(acts, succ_id).LS : succ_id \in Range(successors[act_id])})
    IN  Put(acts, act_id, [LF |-> LF, LS |-> LF])

\* variant: an activity without successors finishes late at its own EF
BackwardStep_sink_own_EF(acts, act_id, successors, project_finish) ==
    LET act == Get(acts, act_id)
        LF == IF successors[act_id] = <<>>
              THEN act.EF
              ELSE min({Get(acts, succ_id).LS : succ_id \in Range(successors[act_id])})
    IN  Put(acts, act_id, [LF |-> LF, LS |-> LF - act.duration])

BackwardStep(acts, act_id, successors, project_finish) ==
    LET act == Get(acts, act_id)
        LF == IF successors[act_id] = <<>>
              THEN project_finish
              ELSE min({Get(acts, succ_id).LS : succ_id \in Range(successors[act_id])})
    IN  Put(acts, act_id, [LF |-> LF, LS |-> LF - act.duration])

RECURSIVE BackwardLoop(_, _, _, _)
BackwardLoop(acts, rorder, successors, project_finish) ==
    IF rorder = <<>>
    THEN acts
    ELSE BackwardLoop(BackwardStep(acts, Head(rorder), successors, project_finish),
                      Tail(rorder), successors, project_finish)

\* variant: the project finish is taken one unit after the last EF
_backward_pass_late_finish(acts, order, successors) ==
    LET project_finish == max({acts[i].EF : i \in 1..Len(acts)}) + 1
    IN  BackwardLoop(acts, reversed(order), successors, project_finish)

\* variant: the project finish is the earliest EF
_backward_pass_earliest_finish(acts, order, successors) ==
    LET project_finish == min({acts[i].EF : i \in 1..Len(acts)})
    IN  BackwardLoop(acts, reversed(order), successors, project_finish)

_backward_pass(acts, order, successors) ==
    LET project_finish == max({acts[i].EF : i \in 1..Len(acts)})
    IN  BackwardLoop(acts, reversed(order), successors, project_finish)

\* ----------------------------------------------------------------------
\* Float and critical path
\* ----------------------------------------------------------------------
\* variant: total float measured from the late finish
FloatStep_from_LF(acts, act, successors) ==
    LET total_float == act.LF - act.ES
        free_float ==
            IF successors[act.id] = <<>>
            THEN total_float
            ELSE min({Get(acts, succ_id).ES : succ_id \in Range(successors[act.id])}) - act.EF
    IN  [act EXCEPT !.total_float = total_float,
                    !.is_critical = (total_float = 0),
                    !.free_float = free_float]

\* variant: criticality decided by the free float
FloatStep_critical_by_free(acts, act, successors) ==
    LET total_float == act.LS - act.ES
        free_float ==
            IF successors[act.id] = <<>>
            THEN total_float
            ELSE min({Get(acts, succ_id).ES : succ_id \in Range(successors[act.id])}) - act.EF
    IN  [act EXCEPT !.total_float = total_float,
                    !.is_critical = (free_float = 0),
                    !.free_float = free_float]

\* variant: free float against the successors' late finish
FloatStep_successor_LF(acts, act, successors) ==
    LET total_float == act.LS - act.ES
        free_float ==
            IF successors[act.id] = <<>>
            THEN total_float
            ELSE min({Get(acts, succ_id).LF : succ_id \in Range(successors[act.id])}) - act.EF
    IN  [act EXCEPT !.total_float = total_float,
                    !.is_critical = (total_float = 0),
                    !.free_float = free_float]

\* variant: free float measured from the activity's own early start
FloatStep_from_ES(acts, act, successors) ==
    LET total_float == act.LS - act.ES
        free_float ==
            IF successors[act.id] = <<>>
            THEN total_float
            ELSE min({Get(acts, succ_id).ES : succ_id \in Range(successors[act.id])}) - act.ES
    IN  [act EXCEPT !.total_float = total_float,
                    !.is_critical = (total_float = 0),
                    !.free_float = free_float]

\* variant: free float measured from the activity's late finish
FloatStep_free_from_LF(acts, act, successors) ==
    LET total_float == act.LS - act.ES
        free_float ==
            IF successors[act.id] = <<>>
            THEN total_float
            ELSE min({Get(acts, succ_id).ES : succ_id \in Range(successors[act.id])}) - act.LF
    IN  [act EXCEPT !.total_float = total_float,
                    !.is_critical = (total_float = 0),
                    !.free_float = free_float]

FloatStep(acts, act, successors) ==
    LET total_float == act.LS - act.ES
        free_float ==
            IF successors[act.id] = <<>>
            THEN total_float
            ELSE min({Get(acts, succ_id).ES : succ_id \in Range(successors[act.id])}) - act.EF
    IN  [act EXCEPT !.total_float = total_float,
                    !.is_critical = (total_float = 0),
                    !.free_float = free_float]

\* The loop writes total_float, is_critical and free_float only and reads
\* LS, ES and EF only, so every iteration sees the dates the passes left.
_compute_float(acts, successors) ==
    [i \in 1..Len(acts) |-> FloatStep(acts, acts[i], successors)]

\* ----------------------------------------------------------------------
\* schedule(): the whole pipeline.  The result is the mapping, the cached
\* order and the outcome after the call.
\* ----------------------------------------------------------------------
\* variant: the new order is appended to the cached one
CacheOrder_extend(last_order, order) == last_order \o order

\* variant: the order is cached by the first successful run only
CacheOrder_once(last_order, order) == IF last_order = <<>> THEN order ELSE last_order

\* self._last_order = order
CacheOrder(last_order, order) == order

\* variant: the early return on an empty mapping forgets the cached order
schedule_forgetting(acts, last_order) ==
    IF acts = <<>>
    THEN [activities |-> acts, order |-> <<>>, outcome |-> Returned]
    ELSE
    LET valid == _validate(acts) IN
    IF valid.status = "raised"
    THEN [activities |-> acts, order |-> last_order, outcome |-> valid]
    ELSE
    LET reset == _reset_schedule_fields(acts)
        topo == _topological_sort(reset)
    IN
    IF topo.outcome.status = "raised"
    THEN [activities |-> reset, order |-> last_order, outcome |-> topo.outcome]
    ELSE
    LET order == topo.order
        forward == _forward_pass(reset, order)
        successors == _build_successor_map(forward)
        backward == _backward_pass(forward, order, successors)
        floats == _compute_float(backward, successors)
    IN  [activities |-> floats, order |-> CacheOrder(last_order, order), outcome |-> Returned]

\* variant: the references are validated after the reset and the ordering
schedule_order_first(acts, last_order) ==
    IF acts = <<>>
    THEN [activities |-> acts, order |-> last_order, outcome |-> Returned]
    ELSE
    LET reset == _reset_schedule_fields(acts)
        topo == _topological_sort(reset)
    IN
    IF topo.outcome.status = "raised"
    THEN [activities |-> reset, order |-> last_order, outcome |-> topo.outcome]
    ELSE
    LET valid == _validate(acts) IN
    IF valid.status = "raised"
    THEN [activities |-> reset, order |-> last_order, outcome |-> valid]
    ELSE
    LET order == topo.order
        forward == _forward_pass(reset, order)
        successors == _build_successor_map(forward)
        backward == _backward_pass(forward, order, successors)
        floats == _compute_float(backward, successors)
    IN  [activities |-> floats, order |-> CacheOrder(last_order, order), outcome |-> Returned]

schedule(acts, last_order) ==
    IF acts = <<>>
    THEN [activities |-> acts, order |-> last_order, outcome |-> Returned]
    ELSE
    LET valid == _validate(acts) IN
    IF valid.status = "raised"
    THEN [activities |-> acts, order |-> last_order, outcome |-> valid]
    ELSE
    LET reset == _reset_schedule_fields(acts)
        topo == _topological_sort(reset)
    IN
    IF topo.outcome.status = "raised"
    THEN [activities |-> reset, order |-> last_order, outcome |-> topo.outcome]
    ELSE
    LET order == topo.order
        forward == _forward_pass(reset, order)
        successors == _build_successor_map(forward)
        backward == _backward_pass(forward, order, successors)
        floats == _compute_float(backward, successors)
    IN  [activities |-> floats, order |-> CacheOrder(last_order, order), outcome |-> Returned]

\* ----------------------------------------------------------------------
\* Utility helpers
\* ----------------------------------------------------------------------
KeyError(key) == [status |-> "raised", value |-> <<"KeyError", key>>]

\* the first id of the list that is not a key (the lookup that raises)
FirstMissing(acts, order) ==
    order[CHOOSE i \in 1..Len(order) :
              /\ order[i] \notin keys(acts)
              /\ \A j \in 1..(i - 1) : order[j] \in keys(acts)]

get_critical_path(acts, last_order) ==
    IF last_order = <<>>
    THEN [status |-> "returned",
          value |-> key_list(SelectSeq(acts, LAMBDA a : a.is_critical))]
    ELSE IF \E i \in 1..Len(last_order) :
               /\ last_order[i] \notin keys(acts)
               /\ \A j \in 1..(i - 1) : last_order[j] \in keys(acts)
         THEN KeyError(FirstMissing(acts, last_order))
         ELSE [status |-> "returned",
               value |-> SelectSeq(last_order, LAMBDA aid : Get(acts, aid).is_critical)]

\* variant: the finish of the activity inserted last
project_duration_of_last(acts) ==
    IF acts = <<>> THEN 0 ELSE acts[Len(acts)].EF

project_duration(acts) ==
    IF acts = <<>> THEN 0 ELSE max({acts[i].EF : i \in 1..Len(acts)})

\* ----------------------------------------------------------------------
\* The state machine
\* ----------------------------------------------------------------------
\* size of a network: its activities, predecessor entries and units of duration
RECURSIVE Size(_)
Size(acts) ==
    IF acts = <<>>
    THEN 0
    ELSE 1 + Head(acts).duration + Len(Head(acts).predecessors) + Size(Tail(acts))

\* The activities Activity(...) can construct under a new key of the
\* mapping m within the size bound.
NewActivities(m) ==
    LET room == MaxSize - Size(m) - 1
    IN  UNION {UNION {{Activity(id, n, d, p) :
                          n \in Names,
                          p \in {q \in SeqUpTo(Ids, room - d) : PostInitOk(id, d, q)}} :
                      d \in 0..room} :
               id \in Ids \ keys(m)}

\* CPMScheduler(activities) on a mapping the caller has yet to fill
Init ==
    /\ activities = <<>>
    /\ _last_order = <<>>
    /\ outcome = NoCall
    /\ edits = 0
    /\ call = Idle

\* Before the first call the caller fills the mapping the scheduler holds:
\* activities[a.id] = Activity(...) for a new id, in any order.
Construct ==
    /\ outcome = NoCall
    /\ edits = 0
    /\ \E a \in NewActivities(activities) : activities' = Append(activities, a)
    /\ UNCHANGED <<_last_order, outcome, edits, call>>

\* self.schedule(): r is the one result of the call
Schedule ==
    \E r \in {schedule(activities, _last_order)} :
        /\ activities' = r.activities
        /\ _last_order' = r.order
        /\ outcome' = r.outcome
        /\ UNCHANGED <<edits, call>>

\* activities[act.id] = Activity(...): a new key is inserted at the end
AddActivity ==
    /\ edits < MaxEdits
    /\ \E a \in NewActivities(activities) : activities' = Append(activities, a)
    /\ edits' = edits + 1
    /\ outcome' = NoCall
    /\ UNCHANGED <<_last_order, call>>

\* del activities[act_id]
DeleteActivity ==
    /\ edits < MaxEdits
    /\ \E id \in keys(activities) : activities' = Del(activities, id)
    /\ edits' = edits + 1
    /\ outcome' = NoCall
    /\ UNCHANGED <<_last_order, call>>

\* activities[act_id].predecessors.append(pred_id): the list of a
\* constructed activity is mutable and is not validated again
AppendPredecessor ==
    /\ edits < MaxEdits
    /\ Size(activities) < MaxSize
    /\ \E id \in keys(activities), pred_id \in Ids :
          activities' = Put(activities, id,
              [predecessors |-> Append(Get(activities, id).predecessors, pred_id)])
    /\ edits' = edits + 1
    /\ outcome' = NoCall
    /\ UNCHANGED <<_last_order, call>>

Next ==
    \/ Construct
    \/ Schedule
    \/ AddActivity
    \/ DeleteActivity
    \/ AppendPredecessor

\* one scheduler and a caller who changes the mapping between the calls
Spec == Init /\ [][Next]_vars

\* schedule() on every mapping the caller can fill
NextRun ==
    \/ Construct
    \/ Schedule

SpecRun == Init /\ [][NextRun]_vars

\* The same calls, for the properties that compare a schedule with the one
\* schedule() computes after the caller has lengthened an activity
SpecDelay == Init /\ [][NextRun]_vars

\* values a computed field can hold before a run without a run having
\* produced them
StaleValues == {-1, 2}

\* The computed fields are plain attributes: the caller overwrites those of
\* one activity (by hand, or with what storage held for it).
HandEdit ==
    /\ edits < MaxEdits
    /\ \E id \in keys(activities), v \in StaleValues, c \in BOOLEAN :
          activities' = Put(activities, id,
              [ES |-> v, EF |-> v, LS |-> v, LF |-> v,
               total_float |-> v, free_float |-> v, is_critical |-> c])
    /\ edits' = edits + 1
    /\ outcome' = NoCall
    /\ UNCHANGED <<_last_order, call>>

NextStale ==
    \/ Construct
    \/ Schedule
    \/ AddActivity
    \/ DeleteActivity
    \/ AppendPredecessor
    \/ HandEdit

\* one scheduler and a caller who changes the mapping or the computed
\* fields between the calls
SpecStale == Init /\ [][NextStale]_vars

\* schedule() up to the loop of _topological_sort: the early return, the
\* validation, the reset and the set-up of the loop
ScheduleEnter ==
    /\ outcome = NoCall
    /\ call = Idle
    /\ IF activities = <<>>
       THEN /\ outcome' = Returned
            /\ UNCHANGED <<activities, call>>
       ELSE IF _validate(activities).status = "raised"
       THEN /\ outcome' = _validate(activities)
            /\ UNCHANGED <<activities, call>>
       ELSE /\ outcome' = Running
            /\ activities' = _reset_schedule_fields(activities)
            /\ call' = KahnEnter(activities')
    /\ UNCHANGED <<_last_order, edits>>

\* the loop of _topological_sort, one test and one iteration at a time
KahnIterate ==
    /\ call.pc = "loop"
    /\ call' = KahnStep(call, _build_successor_map(activities))
    /\ UNCHANGED <<activities, _last_order, outcome, edits>>

\* after the loop: the length check raises or lets the passes begin
KahnCheck ==
    /\ call.pc = "check"
    /\ IF Len(call.order) # Len(activities)
       THEN /\ outcome' = CycleError
            /\ call' = Idle
       ELSE /\ call' = [call EXCEPT !.pc = "forward", !.i = 1]
            /\ UNCHANGED outcome
    /\ UNCHANGED <<activities, _last_order, edits>>

\* for act_id in order: one iteration, or the project finish once the
\* forward pass is over
ForwardIterate ==
    /\ call.pc = "forward"
    /\ IF call.i <= Len(call.order)
       THEN /\ activities' = ForwardStep(activities, call.order[call.i])
            /\ call' = [call EXCEPT !.i = call.i + 1]
       ELSE /\ call' = [call EXCEPT
                            !.pc = "backward",
                            !.i = Len(call.order),
                            !.project_finish =
                                max({activities[j].EF : j \in 1..Len(activities)})]
            /\ UNCHANGED activities
    /\ UNCHANGED <<_last_order, outcome, edits>>

\* for act_id in reversed(order): one iteration
BackwardIterate ==
    /\ call.pc = "backward"
    /\ IF call.i >= 1
       THEN /\ activities' = BackwardStep(activities, call.order[call.i],
                                           _build_successor_map(activities),
                                           call.project_finish)
            /\ call' = [call EXCEPT !.i = call.i - 1]
       ELSE /\ call' = [call EXCEPT !.pc = "float", !.i = 1]
            /\ UNCHANGED activities
    /\ UNCHANGED <<_last_order, outcome, edits>>

\* for act in self.activities.values(): one iteration of _compute_float
FloatIterate ==
    /\ call.pc = "float"
    /\ IF call.i <= Len(activities)
       THEN /\ activities' = [activities EXCEPT ![call.i] =
                                  FloatStep(activities, activities[call.i],
                                            _build_successor_map(activities))]
            /\ call' = [call EXCEPT !.i = call.i + 1]
       ELSE /\ call' = [call EXCEPT !.pc = "return"]
            /\ UNCHANGED activities
    /\ UNCHANGED <<_last_order, outcome, edits>>

\* self._last_order = order; return
ScheduleReturn ==
    /\ call.pc = "return"
    /\ _last_order' = CacheOrder(_last_order, call.order)
    /\ outcome' = Returned
    /\ call' = Idle
    /\ UNCHANGED <<activities, edits>>

\* the steps of a call that is under way
CallStep ==
    \/ KahnIterate
    \/ KahnCheck
    \/ ForwardIterate
    \/ BackwardIterate
    \/ FloatIterate
    \/ ScheduleReturn

NextKahn ==
    \/ Construct
    \/ ScheduleEnter
    \/ CallStep

\* One call of schedule() on every mapping the caller can fill, taken loop
\* iteration by loop iteration.  The engine is synchronous and
\* single-threaded: a call that can take its next step takes it.
SpecKahn == Init /\ [][NextKahn]_vars /\ WF_vars(CallStep)

\* ----------------------------------------------------------------------
\* Activity construction on raw arguments.  A raw string is the sequence of
\* its characters.  A raw duration is a record of its Python type and a
\* number standing for it; a raw predecessor argument is a record of its
\* type and the list of strings it holds (one string for a str).
\* ----------------------------------------------------------------------
\* str.strip(): leading and trailing blanks removed
RECURSIVE strip(_)
strip(s) ==
    IF s = <<>> THEN <<>>
    ELSE IF Head(s) = " " THEN strip(Tail(s))
    ELSE IF s[Len(s)] = " " THEN strip(SubSeq(s, 1, Len(s) - 1))
    ELSE s

\* str.split(","): the pieces between the commas, empty pieces included
RECURSIVE split(_)
split(s) ==
    IF \A k \in 1..Len(s) : s[k] # ","
    THEN <<s>>
    ELSE LET k == CHOOSE j \in 1..Len(s) :
                      s[j] = "," /\ \A l \in 1..(j - 1) : s[l] # ","
         IN  <<SubSeq(s, 1, k - 1)>> \o split(SubSeq(s, k + 1, Len(s)))

ValueError(message) == [status |-> "raised", message |-> <<"ValueError", message>>]
TypeError(message) == [status |-> "raised", message |-> <<"TypeError", message>>]

\* the stripped entries that are not empty, in order
StrippedNonEmpty(parts) ==
    LET stripped == [k \in 1..Len(parts) |-> strip(parts[k])]
    IN  SelectSeq(stripped, LAMBDA q : q # <<>>)

_parse_predecessors(value) ==
    IF value.type = "NoneType"
    THEN [status |-> "returned", value |-> <<>>]
    ELSE IF value.type = "list"
    THEN [status |-> "returned", value |-> StrippedNonEmpty(value.value)]
    ELSE IF value.type = "str"
    THEN [status |-> "returned", value |-> StrippedNonEmpty(split(value.value[1]))]
    ELSE TypeError("predecessors must be a list or comma-separated string")

\* isinstance(duration, int): bool is a subclass of int
IsInstanceInt(duration) == duration.type \in {"int", "bool"}

\* variant: the self-loop guard compares the id as it was passed in
__post_init__unstripped(id, name, duration, predecessors) ==
    IF strip(id) = <<>>
    THEN ValueError("Activity 'id' must be a non-empty string.")
    ELSE IF strip(name) = <<>>
    THEN ValueError("Activity 'name' must be a non-empty string.")
    ELSE IF ~IsInstanceInt(duration) \/ duration.value < 0
    THEN ValueError("Activity duration must be a non-negative integer")
    ELSE LET parsed == _parse_predecessors(predecessors)
         IN  IF parsed.status = "raised"
             THEN parsed
             ELSE IF id \in Range(parsed.value)
             THEN ValueError("lists itself as a predecessor")
             ELSE [status |-> "returned",
                   value |-> Activity(strip(id), strip(name), duration, parsed.value)]

\* the constructor: the Activity with normalised id, name and predecessor
\* list and default computed fields, or the error raised
__post_init__(id, name, duration, predecessors) ==
    IF strip(id) = <<>>
    THEN ValueError("Activity 'id' must be a non-empty string.")
    ELSE IF strip(name) = <<>>
    THEN ValueError("Activity 'name' must be a non-empty string.")
    ELSE IF ~IsInstanceInt(duration) \/ duration.value < 0
    THEN ValueError("Activity duration must be a non-negative integer")
    ELSE LET parsed == _parse_predecessors(predecessors)
         IN  IF parsed.status = "raised"
             THEN parsed
             ELSE IF strip(id) \in Range(parsed.value)
             THEN ValueError("lists itself as a predecessor")
             ELSE [status |-> "returned",
                   value |-> Activity(strip(id), strip(name), duration, parsed.value)]

\* raw arguments a caller can pass
RawIds == SeqUpTo({" ", "A", "B"}, MaxRawLen)
RawNames == {<<>>, <<" ">>, <<"n">>, <<" ", "n", " ">>}
RawDurations ==
    {[type |-> "int", value |-> v] : v \in {-1, 0, 1}}
      \cup {[type |-> "bool", value |-> 1],
            [type |-> "float", value |-> 1],
            [type |-> "str", value |-> 1],
            [type |-> "NoneType", value |-> 0]}
RawPredecessors ==
    {[type |-> "NoneType", value |-> <<>>], [type |-> "int", value |-> <<>>]}
      \cup {[type |-> "str", value |-> <<v>>] : v \in SeqUpTo({" ", ",", "A"}, MaxRawLen)}
      \cup {[type |-> "list", value |-> v] :
               v \in SeqUpTo(SeqUpTo({" ", "A"}, MaxRawLen), 2)}

\* a caller about to construct one Activity: call holds the arguments
InitActivity ==
    /\ activities = <<>>
    /\ _last_order = <<>>
    /\ outcome = NoCall
    /\ edits = 0
    /\ call \in {[pc |-> "Activity", id |-> i, name |-> n, duration |-> d,
                   predecessors |-> p] :
                     i \in RawIds, n \in RawNames, d \in RawDurations,
                     p \in RawPredecessors}

\* Activity(id, name, duration, predecessors): the object is put into the
\* mapping when the constructor returns one
NewActivity ==
    /\ outcome = NoCall
    /\ \E r \in {__post_init__(call.id, call.name, call.duration, call.predecessors)} :
          IF r.status = "raised"
          THEN /\ outcome' = r
               /\ UNCHANGED activities
          ELSE /\ outcome' = Returned
               /\ activities' = <<r.value>>
    /\ UNCHANGED <<_last_order, edits, call>>

NextActivity == NewActivity

SpecActivity == InitActivity /\ [][NextActivity]_vars

\* ----------------------------------------------------------------------
\* Persistence: the table of ActivityRecord rows, in the order of insertion
\* ----------------------------------------------------------------------
\* ",".join(ids): the characters of the string (an id is one character)
RECURSIVE join(_)
join(ids) ==
    IF ids = <<>> THEN <<>>
    ELSE IF Len(ids) = 1 THEN <<ids[1]>>
    ELSE <<ids[1], ",">> \o join(Tail(ids))

\* the columns of the table
ActivityRecord(id, name, duration, predecessors, ES, EF, LS, LF, total_float, is_critical) ==
    [id |-> id, name |-> name, duration |-> duration, predecessors |-> predecessors,
     ES |-> ES, EF |-> EF, LS |-> LS, LF |-> LF,
     total_float |-> total_float, is_critical |-> is_critical]

_activity_to_record(a) ==
    ActivityRecord(a.id, a.name, a.duration, join(a.predecessors),
                   a.ES, a.EF, a.LS, a.LF, a.total_float, a.is_critical)

\* the row of the same id with every other column overwritten
_update_record(record, a) ==
    [record EXCEPT !.name = a.name, !.duration = a.duration,
                   !.predecessors = join(a.predecessors),
                   !.ES = a.ES, !.EF = a.EF, !.LS = a.LS, !.LF = a.LF,
                   !.total_float = a.total_float, !.is_critical = a.is_critical]

\* Activity(...) on the columns of a row; the ids of the predecessor
\* column are its non-empty stripped pieces.  The rows come from accepted
\* activities, whose id, name and duration the constructor accepts again.
_record_to_activity(r) ==
    LET pieces == StrippedNonEmpty(split(r.predecessors))
        predecessors == [k \in 1..Len(pieces) |-> pieces[k][1]]
    IN  [Activity(r.id, r.name, r.duration, predecessors) EXCEPT
            !.ES = r.ES, !.EF = r.EF, !.LS = r.LS, !.LF = r.LF,
            !.total_float = r.total_float, !.is_critical = r.is_critical]

\* for act in activities.values(): update the row of act.id or add one
RECURSIVE save_all_activities(_, _)
save_all_activities(table, acts) ==
    IF acts = <<>>
    THEN table
    ELSE LET act == Head(acts)
             saved == IF \E k \in 1..Len(table) : table[k].id = act.id
                      THEN [k \in 1..Len(table) |->
                               IF table[k].id = act.id
                               THEN _update_record(table[k], act)
                               ELSE table[k]]
                      ELSE Append(table, _activity_to_record(act))
         IN  save_all_activities(saved, Tail(acts))

\* {r.id: _record_to_activity(r) for r in records}
load_all_activities(table) == [k \in 1..Len(table) |-> _record_to_activity(table[k])]

\* The sample project of the application
SAMPLE_ACTIVITIES ==
    <<Activity("A", "Start", 2, <<>>),
      Activity("B", "Foundation", 4, <<"A">>),
      Activity("C", "Structure", 6, <<"B">>),
      Activity("D", "Electrical", 3, <<"B">>),
      Activity("E", "Finish", 2, <<"C", "D">>)>>

\* CPMScheduler(activities) on the sample project: a caller of the engine
\* may have inserted the five activities into the mapping in any order
InitSample ==
    /\ activities \in {[i \in 1..Len(SAMPLE_ACTIVITIES) |-> SAMPLE_ACTIVITIES[f[i]]] :
                          f \in Permutations(1..Len(SAMPLE_ACTIVITIES))}
    /\ _last_order = <<>>
    /\ outcome = NoCall
    /\ edits = 0
    /\ call = Idle

NextSample == Schedule

\* schedule() on the sample project
SpecSample == InitSample /\ [][NextSample]_vars

\* ----------------------------------------------------------------------
\* Vocabulary of the properties
\* ----------------------------------------------------------------------
\* dependency edges <<predecessor, dependent>> between activities of the mapping
Edges(acts) ==
    {e \in keys(acts) \X keys(acts) : e[1] \in Range(Get(acts, e[2]).predecessors)}

\* pairs joined by a path of at least one and at most n + 1 edges
RECURSIVE Paths(_, _)
Paths(E, n) ==
    IF n = 0
    THEN E
    ELSE LET P == Paths(E, n - 1)
         IN  P \cup {<<x[1][1], x[2][2]>> : x \in {y \in P \X E : y[1][2] = y[2][1]}}

\* the dependency graph has a cycle (a self-loop is one)
HasCycle(acts) ==
    \E a \in keys(acts) : <<a, a>> \in Paths(Edges(acts), Len(acts))

AllReferencesExist(acts) ==
    \A i \in 1..Len(acts) : Range(acts[i].predecessors) \subseteq keys(acts)

HasSuccessor(acts, id) == \E i \in 1..Len(acts) : id \in Range(acts[i].predecessors)

DefaultComputed == <<0, 0, 0, 0, 0, 0, FALSE>>

\* the last call was a schedule() that returned a schedule of a non-empty network
Scheduled == outcome = Returned /\ activities # <<>>

\* ----------------------------------------------------------------------
\* Properties
\* ----------------------------------------------------------------------

\* C1: on a network with a dependency cycle schedule() fails with the
\* cycle error and every computed field of every activity has the same
\* value after the failed call as before it.
C1_CycleKeepsFields ==
    [][(Schedule /\ activities # <<>> /\ AllReferencesExist(activities)
                 /\ HasCycle(activities))
          => (/\ outcome' = CycleError
              /\ ComputedFields(activities') = ComputedFields(activities))]_vars

\* C2: when some activity lists a predecessor id that is not a key,
\* schedule() fails with an error naming a referencing activity and the
\* missing id it lists, and neither the activities nor the cached order
\* change.
C2_UnknownPredecessor ==
    [][(Schedule /\ ~AllReferencesExist(activities))
          => (/\ \E i \in 1..Len(activities) :
                    \E pred_id \in Range(activities[i].predecessors) \ keys(activities) :
                        outcome' = UnknownPredecessorError(activities[i].id, pred_id)
              /\ activities' = activities
              /\ _last_order' = _last_order)]_vars

\* a failed validation after a run that left values behind
C2_Witness ==
    /\ outcome.status = "raised"
    /\ outcome # CycleError
    /\ _last_order # <<>>
    /\ \E i \in 1..Len(activities) : Computed(activities[i]) # DefaultComputed

\* C3: on a non-empty network whose references all exist, schedule() raises
\* the circular-dependency error exactly when the graph has a cycle, and
\* returns on every acyclic network.
C3_CycleErrorIffCycle ==
    (outcome # NoCall /\ activities # <<>> /\ AllReferencesExist(activities))
        => /\ outcome = CycleError <=> HasCycle(activities)
           /\ ~HasCycle(activities) => outcome = Returned

\* the cycle error on a self-loop appended after construction
C3_Witness ==
    /\ outcome = CycleError
    /\ \E i \in 1..Len(activities) : activities[i].id \in Range(activities[i].predecessors)
    /\ \E i \in 1..Len(activities) : activities[i].id \notin Range(activities[i].predecessors)

\* C4: after a successful schedule(), EF - ES = duration and
\* LF - LS = duration for every activity.
C4_DatesSpanDuration ==
    Scheduled =>
        \A i \in 1..Len(activities) :
            /\ activities[i].EF - activities[i].ES = activities[i].duration
            /\ activities[i].LF - activities[i].LS = activities[i].duration

\* a milestone that starts late, next to an activity that takes time
C4_Witness ==
    /\ Scheduled
    /\ \E i \in 1..Len(activities) :
          activities[i].duration = 0 /\ activities[i].ES > 0 /\ activities[i].LS > 0
    /\ \E i \in 1..Len(activities) : activities[i].duration > 0

\* C5: after a successful schedule(), total_float = LS - ES = LF - EF for
\* every activity.
C5_FloatIdentity ==
    Scheduled =>
        \A i \in 1..Len(activities) :
            /\ activities[i].total_float = activities[i].LS - activities[i].ES
            /\ activities[i].total_float = activities[i].LF - activities[i].EF

C5_Witness ==
    /\ Scheduled
    /\ \E i \in 1..Len(activities) : activities[i].total_float > 0
    /\ \E i \in 1..Len(activities) : activities[i].duration > 0 /\ activities[i].ES > 0

\* C6: after a successful schedule(), is_critical is true exactly for the
\* activities whose total_float is 0.
C6_CriticalIffZeroFloat ==
    Scheduled =>
        \A i \in 1..Len(activities) :
            activities[i].is_critical <=> (activities[i].total_float = 0)

C6_Witness ==
    /\ Scheduled
    /\ \E i \in 1..Len(activities) : activities[i].is_critical
    /\ \E i \in 1..Len(activities) :
          ~activities[i].is_critical /\ activities[i].free_float = 0

\* C7: after a successful schedule(), free_float <= total_float for every
\* activity, with equality for every activity without successors.
C7_FreeFloatAtMostTotal ==
    Scheduled =>
        \A i \in 1..Len(activities) :
            /\ activities[i].free_float <= activities[i].total_float
            /\ ~HasSuccessor(activities, activities[i].id)
                  => activities[i].free_float = activities[i].total_float

\* an activity with a successor whose free float is below its total float
C7_Witness ==
    /\ Scheduled
    /\ \E i \in 1..Len(activities) :
          /\ HasSuccessor(activities, activities[i].id)
          /\ activities[i].free_float < activities[i].total_float
    /\ \E i \in 1..Len(activities) :
          /\ ~HasSuccessor(activities, activities[i].id)
          /\ activities[i].total_float > 0

\* sums of the durations along the chains of critical activities that start
\* at id, follow predecessor -> dependent edges and end at an activity
\* without successors (of an acyclic network)
RECURSIVE CriticalChainSums(_, _)
CriticalChainSums(acts, id) ==
    LET a == Get(acts, id)
        dependents == {e[2] : e \in {f \in Edges(acts) : f[1] = id}}
    IN  IF ~a.is_critical
        THEN {}
        ELSE IF dependents = {}
             THEN {a.duration}
             ELSE {a.duration + x :
                      x \in UNION {CriticalChainSums(acts, d) : d \in dependents}}

\* C8: after a successful schedule() on a non-empty network, some chain of
\* critical activities leads from an activity without predecessors to one
\* without successors, and its durations sum to project_duration().
C8_CriticalChain ==
    Scheduled =>
        \E i \in 1..Len(activities) :
            /\ activities[i].predecessors = <<>>
            /\ project_duration(activities)
                  \in CriticalChainSums(activities, activities[i].id)

\* a critical chain of two activities next to an activity with float
C8_Witness ==
    /\ Scheduled
    /\ project_duration(activities) = 2
    /\ \E i \in 1..Len(activities) : ~activities[i].is_critical
    /\ \E i \in 1..Len(activities) :
          activities[i].is_critical /\ activities[i].predecessors # <<>>

\* C9: schedule() called again on the unchanged network, right after a
\* schedule() call, leaves every field of every activity, the cached order,
\* the outcome and the result of get_critical_path() as the first call
\* left them.
C9_RepeatedSchedule ==
    [][(Schedule /\ outcome # NoCall)
          => (/\ activities' = activities
              /\ _last_order' = _last_order
              /\ outcome' = outcome
              /\ get_critical_path(activities', _last_order')
                    = get_critical_path(activities, _last_order))]_vars

\* a schedule of three activities whose critical path is not the whole
\* insertion order
C9_Witness ==
    /\ Scheduled
    /\ Len(_last_order) = 3
    /\ _last_order # key_list(activities)
    /\ Len(get_critical_path(activities, _last_order).value) = 2
    /\ project_duration(activities) > 0

\* C10: in every reachable state get_critical_path() returns, without
\* error, exactly the ids of the activities of the mapping whose
\* is_critical is true, in the order of the most recent run.
C10_CriticalPathOfMapping ==
    LET r == get_critical_path(activities, _last_order)
        position(id) == CHOOSE k \in 1..Len(_last_order) : _last_order[k] = id
    IN  /\ r.status = "returned"
        /\ Range(r.value) = {activities[i].id : i \in {j \in 1..Len(activities) :
                                                        activities[j].is_critical}}
        /\ _last_order # <<>> =>
              \A i, j \in 1..Len(r.value) :
                  i < j => position(r.value[i]) < position(r.value[j])

\* C11: schedule() on an empty mapping returns without an error and leaves
\* the mapping (the empty result) and the cached order as they were, and
\* project_duration() of the empty network is 0.
C11_EmptyNetwork ==
    [][(Schedule /\ activities = <<>>)
          => (/\ outcome' = Returned
              /\ activities' = <<>>
              /\ _last_order' = _last_order
              /\ project_duration(activities') = 0)]_vars

\* schedule() has returned on a mapping emptied after an earlier run, whose
\* order the scheduler still holds
C11_Witness ==
    /\ activities = <<>>
    /\ outcome = Returned
    /\ _last_order # <<>>
    /\ project_duration(activities) = 0

\* the largest sum of durations over the dependency chains that end in id
\* (defined for acyclic networks)
RECURSIVE LongestChainTo(_, _)
LongestChainTo(acts, id) ==
    LET a == Get(acts, id)
    IN  a.duration
          + (IF a.predecessors = <<>>
             THEN 0
             ELSE max({LongestChainTo(acts, p) : p \in Range(a.predecessors)}))

\* C12: after a successful schedule() project_duration() is the maximum EF
\* over all activities, and that value is the largest sum of durations along
\* any dependency chain of the network.
C12_ProjectDuration ==
    Scheduled =>
        /\ project_duration(activities)
              = max({activities[i].EF : i \in 1..Len(activities)})
        /\ \A i \in 1..Len(activities) :
              activities[i].EF <= project_duration(activities)
        /\ project_duration(activities)
              = max({LongestChainTo(activities, id) : id \in keys(activities)})

\* a project of length 2 made by a chain of two activities, while the
\* activity inserted last finishes earlier
C12_Witness ==
    /\ Scheduled
    /\ project_duration(activities) = 2
    /\ activities[Len(activities)].EF < 2
    /\ \E i \in 1..Len(activities) :
          /\ activities[i].predecessors # <<>>
          /\ activities[i].ES = 1
          /\ activities[i].EF = 2

\* C14: after a successful schedule() on a network of one activity without
\* predecessors, whatever its duration, the activity is critical with
\* ES = LS = 0, EF = LF = duration and total_float = free_float = 0.
C14_SingleActivity ==
    (/\ Scheduled
     /\ Len(activities) = 1
     /\ activities[1].predecessors = <<>>)
        => LET a == activities[1]
           IN  /\ a.is_critical
               /\ a.ES = 0 /\ a.LS = 0
               /\ a.EF = a.duration /\ a.LF = a.duration
               /\ a.total_float = 0 /\ a.free_float = 0

\* a scheduled network of one activity that takes time
C14_Witness ==
    /\ Scheduled
    /\ Len(activities) = 1
    /\ activities[1].predecessors = <<>>
    /\ activities[1].duration >= 2
    /\ activities[1].is_critical

\* C19: after a successful schedule() an activity without predecessors has
\* ES = 0 and every other activity has ES equal to the maximum EF of its
\* predecessors, so no activity starts before a predecessor has finished;
\* predecessors with EF 3 and 5 give ES = 5.
C19_EarlyStart ==
    /\ LET acts == <<[Activity("A", "Task", 3, <<>>) EXCEPT !.EF = 3],
                     [Activity("B", "Task", 5, <<>>) EXCEPT !.EF = 5],
                     Activity("C", "Task", 0, <<"A", "B">>)>>
       IN  Get(ForwardStep(acts, "C"), "C").ES = 5
    /\ Scheduled =>
        \A i \in 1..Len(activities) :
            LET a == activities[i]
                finishes == {Get(activities, p).EF : p \in Range(a.predecessors)}
            IN  /\ a.predecessors = <<>> => a.ES = 0
                /\ a.predecessors # <<>> =>
                      /\ a.ES \in finishes
                      /\ \A f \in finishes : a.ES >= f

\* an activity whose two predecessors finish at different times and whose
\* first-listed predecessor is the earlier one
C19_Witness ==
    /\ Scheduled
    /\ \E i \in 1..Len(activities) :
          LET a == activities[i]
          IN  /\ Len(a.predecessors) = 2
              /\ Get(activities, a.predecessors[1]).EF < Get(activities, a.predecessors[2]).EF
              /\ a.ES = Get(activities, a.predecessors[2]).EF

\* the direct successors of id in the mapping
SuccessorsOf(acts, id) == {s \in keys(acts) : id \in Range(Get(acts, s).predecessors)}

\* C20: after a successful schedule() an activity without successors has LF
\* equal to the project finish (the maximum EF) and every other activity has
\* LF equal to the minimum LS of its successors, so LF(a) <= LS(s) for every
\* successor s and LF(a) <= project_duration() for every activity a.
C20_LateFinish ==
    Scheduled =>
        \A i \in 1..Len(activities) :
            LET a == activities[i]
                succs == SuccessorsOf(activities, a.id)
                starts == {Get(activities, s).LS : s \in succs}
            IN  /\ succs = {} =>
                      a.LF = max({activities[j].EF : j \in 1..Len(activities)})
                /\ succs # {} =>
                      /\ a.LF \in starts
                      /\ \A l \in starts : a.LF <= l
                /\ a.LF <= project_duration(activities)

\* an activity whose two successors start late at different times, one of
\* them ending the network before the project finish
C20_Witness ==
    /\ Scheduled
    /\ \E i \in 1..Len(activities) :
          \E s, t \in SuccessorsOf(activities, activities[i].id) :
              /\ Get(activities, s).LS < Get(activities, t).LS
              /\ activities[i].LF = Get(activities, s).LS
              /\ SuccessorsOf(activities, t) = {}
              /\ Get(activities, t).EF < project_duration(activities)

\* what the user supplies: the entries of the mapping in order, each with
\* its id, name, duration and predecessor list
UserFields(acts) ==
    [i \in 1..Len(acts) |->
        <<acts[i].id, acts[i].name, acts[i].duration, acts[i].predecessors>>]

\* C16: a call of schedule(), whether it returns or raises, leaves every
\* activity's id, name, duration and predecessors and the entries of the
\* mapping as they were; only the seven computed fields can differ.
C16_FrameOfSchedule ==
    [][Schedule
          => (/\ UserFields(activities') = UserFields(activities)
              /\ \A i \in 1..Len(activities) :
                    DOMAIN activities'[i] = DOMAIN activities[i])]_vars

\* a call has raised on a network that an earlier call had scheduled: the
\* activities with their durations and predecessor lists are still there
\* and the computed fields are back at their defaults
C16_Witness ==
    /\ outcome.status = "raised"
    /\ _last_order # <<>>
    /\ Len(activities) >= 2
    /\ \E i \in 1..Len(activities) : activities[i].duration > 0
    /\ \E i \in 1..Len(activities) : activities[i].predecessors # <<>>
    /\ \A i \in 1..Len(activities) :
          /\ activities[i].name \in Names
          /\ Computed(activities[i]) = DefaultComputed

\* the network with the duration of activity id increased by d
Delayed(acts, id, d) == Put(acts, id, [duration |-> Get(acts, id).duration + d])

\* project_duration() after re-scheduling the network acts
RescheduledDuration(acts) == project_duration(schedule(acts, <<>>).activities)

\* C17: after a successful schedule(), for every activity a and every delay
\* d >= 0 (up to one more than the project length, which exceeds every
\* total float), re-scheduling the network with a's duration increased by d
\* gives the same project_duration() exactly when d <= total_float(a).
C17_TotalFloatIsSlack ==
    Scheduled =>
        \E length \in {project_duration(activities)} :
            \A i \in 1..Len(activities) :
                \A d \in 0..(length + 1) :
                    \E delayed \in {Delayed(activities, activities[i].id, d)} :
                        (RescheduledDuration(delayed) = length)
                          <=> (d <= activities[i].total_float)

\* a schedule in which one activity can slip by two units and another,
\* which takes time, cannot slip at all
C17_Witness ==
    /\ Scheduled
    /\ \E i \in 1..Len(activities) : activities[i].total_float = 2
    /\ \E i \in 1..Len(activities) :
          /\ activities[i].total_float = 0
          /\ activities[i].duration > 0
          /\ RescheduledDuration(Delayed(activities, activities[i].id, 1))
                = project_duration(activities) + 1

\* the early starts of the direct successors of id, as pairs <<id, ES>>
SuccessorStarts(acts, id) == {<<s, Get(acts, s).ES>> : s \in SuccessorsOf(acts, id)}

\* the network acts after re-scheduling it
Rescheduled(acts) == schedule(acts, <<>>).activities

\* C18: after a successful schedule(), for every activity a with at least
\* one successor and every delay d with 0 <= d <= free_float(a),
\* re-scheduling the network with a's duration increased by d leaves the ES
\* of every direct successor of a unchanged.
C18_FreeFloatIsLocalSlack ==
    Scheduled =>
        \A i \in 1..Len(activities) :
            LET a == activities[i]
            IN  SuccessorsOf(activities, a.id) # {} =>
                  \A d \in 0..a.free_float :
                      \E r \in {Rescheduled(Delayed(activities, a.id, d))} :
                          SuccessorStarts(r, a.id) = SuccessorStarts(activities, a.id)

\* an activity with a successor and a free float of at least 1: delaying it
\* by its free float moves no successor, one unit more moves one
C18_Witness ==
    /\ Scheduled
    /\ \E i \in 1..Len(activities) :
          LET a == activities[i]
              starts == SuccessorStarts(activities, a.id)
          IN  /\ SuccessorsOf(activities, a.id) # {}
              /\ a.free_float >= 1
              /\ SuccessorStarts(Rescheduled(Delayed(activities, a.id, a.free_float)), a.id)
                    = starts
              /\ SuccessorStarts(Rescheduled(Delayed(activities, a.id, a.free_float + 1)), a.id)
                    # starts

\* the dates of activity id as <<ES, EF, LS, LF>>
Dates(acts, id) ==
    <<Get(acts, id).ES, Get(acts, id).EF, Get(acts, id).LS, Get(acts, id).LF>>

\* C13: on the sample network A(2), B(4, pred A), C(6, pred B),
\* D(3, pred B), E(2, preds C, D) schedule() yields A: 0,2,0,2; B: 2,6,2,6;
\* C: 6,12,6,12; D: 6,9,9,12; E: 12,14,12,14 as ES,EF,LS,LF, a project
\* duration of 14, the critical path [A,B,C,E], and total_float = 3 and
\* free_float = 3 for D.
C13_SampleNetwork ==
    outcome = Returned =>
        /\ Dates(activities, "A") = <<0, 2, 0, 2>>
        /\ Dates(activities, "B") = <<2, 6, 2, 6>>
        /\ Dates(activities, "C") = <<6, 12, 6, 12>>
        /\ Dates(activities, "D") = <<6, 9, 9, 12>>
        /\ Dates(activities, "E") = <<12, 14, 12, 14>>
        /\ project_duration(activities) = 14
        /\ get_critical_path(activities, _last_order)
              = [status |-> "returned", value |-> <<"A", "B", "C", "E">>]
        /\ Get(activities, "D").total_float = 3
        /\ Get(activities, "D").free_float = 3

\* the sample project scheduled from a mapping filled in reverse order
C13_Witness ==
    /\ outcome = Returned
    /\ key_list(activities) = <<"E", "D", "C", "B", "A">>
    /\ _last_order = <<"A", "B", "C", "D", "E">>
    /\ Get(activities, "E").predecessors = <<"C", "D">>
    /\ Get(activities, "E").ES = 12

\* C15: a call of schedule() on any network (acyclic, cyclic or with
\* references to unknown ids) that has been entered eventually returns or
\* raises a scheduler error.
C15_ScheduleTerminates ==
    (outcome = Running) ~> (outcome = Returned \/ outcome.status = "raised")

\* a call has left the loop on a cyclic network after placing the
\* activities that do not depend on the cycle
C15_Witness ==
    /\ call.pc = "check"
    /\ outcome = Running
    /\ HasCycle(activities)
    /\ call.order # <<>>
    /\ Len(call.order) < Len(activities)
    /\ \E id \in keys(activities) : call.in_degree[id] > 0

\* the network as the constructor builds it from the user fields alone
Fresh(acts) ==
    [i \in 1..Len(acts) |->
        Activity(acts[i].id, acts[i].name, acts[i].duration, acts[i].predecessors)]

\* C21: the computed fields and the order a successful schedule() produces
\* on a non-empty network are those of a run on the same network with
\* default computed fields and no cached order, whatever values an earlier
\* run or the caller left in the fields and whatever order was cached.
C21_NoStaleValue ==
    [][(Schedule /\ outcome' = Returned /\ activities # <<>>)
          => \E r \in {schedule(Fresh(activities), <<>>)} :
                /\ r.outcome = Returned
                /\ activities' = r.activities
                /\ _last_order' = r.order]_vars

\* a schedule produced after the caller changed the mapping or the fields
\* of a network, with dates that are not the defaults
C21_Witness ==
    /\ Scheduled
    /\ edits = 1
    /\ Len(_last_order) >= 2
    /\ project_duration(activities) > 0
    /\ \E i \in 1..Len(activities) : ~activities[i].is_critical

\* C22: when schedule() fails with the circular-dependency error,
\* validation had passed, the reset has run and no pass has: afterwards
\* every activity has ES = EF = LS = LF = total_float = free_float = 0 and
\* is_critical = false.
C22_CycleErrorAfterReset ==
    [][(Schedule /\ outcome' = CycleError)
          => (/\ AllReferencesExist(activities)
              /\ \A i \in 1..Len(activities') :
                    Computed(activities'[i]) = DefaultComputed
              /\ UserFields(activities') = UserFields(activities))]_vars

\* the cycle error on a network built with a cycle, raised by the first
\* call after the caller had changed the mapping or the fields
C22_Witness ==
    /\ outcome = CycleError
    /\ edits = 1
    /\ _last_order = <<>>
    /\ HasCycle(activities)
    /\ \A i \in 1..Len(activities) : Computed(activities[i]) = DefaultComputed

\* C23: on a network that has both a reference to an id that is not in the
\* mapping and a dependency cycle, schedule() raises the unknown-predecessor
\* error for such a reference, not the cycle error, and leaves the computed
\* fields (and everything else) as they were.
C23_UnknownBeforeCycle ==
    [][(Schedule /\ HasCycle(activities) /\ ~AllReferencesExist(activities))
          => (/\ \E i \in 1..Len(activities) :
                    \E j \in 1..Len(activities[i].predecessors) :
                        /\ activities[i].predecessors[j] \notin keys(activities)
                        /\ outcome' = UnknownPredecessorError(
                                          activities[i].id, activities[i].predecessors[j])
              /\ outcome' # CycleError
              /\ activities' = activities
              /\ _last_order' = _last_order)]_vars

\* the unknown-predecessor error on a network with a cycle, in which the
\* values the caller had put into the computed fields are still there
C23_Witness ==
    /\ outcome.status = "raised"
    /\ outcome # CycleError
    /\ HasCycle(activities)
    /\ ~AllReferencesExist(activities)
    /\ \E i \in 1..Len(activities) : activities[i].ES \in StaleValues

\* the position of id in the sequence order
PositionIn(order, id) == CHOOSE k \in 1..Len(order) : order[k] = id

\* C24: the order a successful schedule() caches, which get_critical_path()
\* walks, holds every activity id of the network exactly once and holds
\* every activity after all of its predecessors.
C24_TopologicalOrder ==
    Scheduled =>
        /\ Len(_last_order) = Len(activities)
        /\ Range(_last_order) = keys(activities)
        /\ \A k, l \in 1..Len(_last_order) : _last_order[k] = _last_order[l] => k = l
        /\ \A e \in Edges(activities) :
              PositionIn(_last_order, e[1]) < PositionIn(_last_order, e[2])
        /\ get_critical_path(activities, _last_order).value
              = SelectSeq(_last_order, LAMBDA id : Get(activities, id).is_critical)

\* an order of three activities that the dependencies force away from the
\* order of the ids and from the insertion order
C24_Witness ==
    /\ Scheduled
    /\ Len(_last_order) = 3
    /\ _last_order # sorted(key_list(activities))
    /\ _last_order # key_list(activities)
    /\ Cardinality(Edges(activities)) >= 2

\* the same network with the mapping filled in the order of the ids and
\* every predecessor list in the order of the ids
Canonical(acts) ==
    LET byId == SortSeq(acts, LAMBDA a, b : Rank(a.id) < Rank(b.id))
    IN  [i \in 1..Len(byId) |->
            [byId[i] EXCEPT !.predecessors = sorted(byId[i].predecessors)]]

\* C25: the result does not depend on the insertion order of the mapping or
\* on the order of the ids inside the predecessor lists: a successful
\* schedule() gives the topological order, the computed fields of every id
\* and the get_critical_path() result that it gives on the network filled
\* and listed in id order (so any two such arrangements agree).
C25_TieBreakById ==
    Scheduled =>
        \E r \in {schedule(Canonical(Fresh(activities)), <<>>)} :
            /\ r.outcome = Returned
            /\ r.order = _last_order
            /\ \A id \in keys(activities) :
                  Computed(Get(r.activities, id)) = Computed(Get(activities, id))
            /\ get_critical_path(r.activities, r.order)
                  = get_critical_path(activities, _last_order)

\* a schedule of a mapping filled against the order of the ids, with a
\* predecessor list against it too and two activities ready at once
C25_Witness ==
    /\ Scheduled
    /\ key_list(activities) = reversed(sorted(key_list(activities)))
    /\ \E i \in 1..Len(activities) :
          /\ Len(activities[i].predecessors) = 2
          /\ activities[i].predecessors # sorted(activities[i].predecessors)
    /\ Cardinality({i \in 1..Len(activities) : activities[i].predecessors = <<>>}) = 2

\* C26: after every successful schedule() (durations are non-negative by
\* construction) no activity has a negative free float, although
\* _compute_float stores the difference as it is.
C26_FreeFloatNonNegative ==
    Scheduled =>
        \A i \in 1..Len(activities) :
            /\ activities[i].duration >= 0
            /\ activities[i].free_float >= 0

\* a schedule in which an activity with a successor has free float 0 while
\* that successor could start later than it does
C26_Witness ==
    /\ Scheduled
    /\ \E i \in 1..Len(activities) :
          \E s \in SuccessorsOf(activities, activities[i].id) :
              /\ activities[i].free_float = 0
              /\ activities[i].total_float >= 1
              /\ Get(activities, s).LS > Get(activities, s).ES

\* C27: after every successful schedule() every activity has
\* 0 <= ES <= LS and EF <= LF, so total_float >= 0 and no date is negative.
C27_DatesOrdered ==
    Scheduled =>
        \A i \in 1..Len(activities) :
            LET a == activities[i]
            IN  /\ 0 <= a.ES
                /\ a.ES <= a.LS
                /\ a.EF <= a.LF
                /\ a.total_float >= 0
                /\ a.EF >= 0 /\ a.LS >= 0 /\ a.LF >= 0

\* a schedule with an activity that takes time and is critical and another
\* that takes time and has float
C27_Witness ==
    /\ Scheduled
    /\ \E i, j \in 1..Len(activities) :
          /\ activities[i].duration >= 1
          /\ activities[i].ES = activities[i].LS
          /\ activities[j].duration >= 1
          /\ activities[j].ES < activities[j].LS
          /\ activities[j].EF < activities[j].LF

\* the list without its repeated entries, first occurrences kept in order
RECURSIVE WithoutRepeats(_)
WithoutRepeats(s) ==
    IF s = <<>>
    THEN <<>>
    ELSE LET front == WithoutRepeats(SubSeq(s, 1, Len(s) - 1))
         IN  IF s[Len(s)] \in Range(front) THEN front ELSE Append(front, s[Len(s)])

\* the network with every predecessor list de-duplicated
DeDuplicated(acts) ==
    [i \in 1..Len(acts) |->
        [acts[i] EXCEPT !.predecessors = WithoutRepeats(acts[i].predecessors)]]

\* C28: an id listed more than once in a predecessor list does not change
\* the result: schedule() returns or raises exactly as on the network with
\* de-duplicated lists, and when it returns, every activity is once in the
\* order and the order and all computed fields are those of that network.
C28_DuplicatePredecessors ==
    (outcome # NoCall /\ activities # <<>>) =>
        \E r \in {schedule(DeDuplicated(Fresh(activities)), <<>>)} :
            /\ r.outcome = outcome
            /\ outcome = Returned =>
                  /\ r.order = _last_order
                  /\ ComputedFields(r.activities) = ComputedFields(activities)
                  /\ \A id \in keys(activities) : Count(_last_order, id) = 1

\* a schedule of a network in which an activity names the same predecessor
\* twice and starts when that predecessor has finished
C28_Witness ==
    /\ Scheduled
    /\ \E i \in 1..Len(activities) :
          /\ activities[i].predecessors # WithoutRepeats(activities[i].predecessors)
          /\ activities[i].ES >= 1
          /\ activities[i].duration >= 1

\* the strings a raw predecessor argument lists, before any trimming
RawEntries(p) ==
    IF p.type = "list" THEN Range(p.value)
    ELSE IF p.type = "str" THEN Range(split(p.value[1]))
    ELSE {}

\* C29: constructing an Activity raises an error when the trimmed id is
\* empty, the trimmed name is empty, the duration is negative or is not an
\* int (a bool is one), or the normalised predecessor list holds the
\* trimmed id; nothing is constructed then.
C29_ConstructionRejects ==
    (/\ outcome # NoCall
     /\ \/ strip(call.id) = <<>>
        \/ strip(call.name) = <<>>
        \/ call.duration.type \notin {"int", "bool"}
        \/ call.duration.value < 0
        \/ \E entry \in RawEntries(call.predecessors) : strip(entry) = strip(call.id))
        => /\ outcome.status = "raised"
           /\ activities = <<>>

\* the constructor has refused an activity that names itself in a
\* comma-separated string, its id passed with a blank around it
C29_Witness ==
    /\ outcome = ValueError("lists itself as a predecessor")
    /\ call.id # strip(call.id)
    /\ call.predecessors.type = "str"
    /\ Len(split(call.predecessors.value[1])) = 2

\* C30: after a successful schedule(), saving all activities and loading
\* them back returns, for every activity, the id, name, duration and
\* predecessors and the computed fields ES, EF, LS, LF, total_float,
\* free_float and is_critical that the run produced.
C30_PersistenceRoundTrip ==
    Scheduled =>
        \E loaded \in {load_all_activities(save_all_activities(<<>>, activities))} :
            /\ keys(loaded) = keys(activities)
            /\ \A id \in keys(activities) : Get(loaded, id) = Get(activities, id)

====
